---- MODULE Spec2Model ----
(***************************************************************************)
(* Model of libzerostash/src/files.rs: the Entry value type, the           *)
(* FileIndex (a DashMap used as a concurrent set of Arc<Entry>), the       *)
(* FileStore handle (has_changed, push, clone) and its MetaObjectField     *)
(* implementation (serialize, deserialize).                                *)
(***************************************************************************)
EXTENDS Integers, Sequences, FiniteSets, Bags, TLC

\* ------------------------------------------------------------------ bounds
NThreads == 2      \* worker threads sharing the stores
NShards == 2       \* shards of the DashMap
MaxHandles == 2    \* FileStore handles alive in one run
MaxStream == 3     \* records a FieldReader holds before it is exhausted
MaxCalls == 3      \* calls into the stores made in one concurrent run
MaxSeqCalls == 4   \* calls into the stores made in one single-threaded run
MaxRaceCalls == 4  \* calls into the store made by racing scanners

HashSpace == 1024  \* range of the 64-bit hasher output, scaled down

Threads == 1..NThreads
Shards == 0..(NShards - 1)
Handles == 1..MaxHandles
Indexes == 1..MaxHandles

\* ------------------------------------------------------------------ Entry
\* struct Entry: the nine public fields, in declaration order.
Entry(secs, nanos, perm, uid, gid, sz, ro, nm, ch) ==
    [unix_secs |-> secs, unix_nanos |-> nanos, unix_perm |-> perm,
     unix_uid |-> uid, unix_gid |-> gid, size |-> sz, readonly |-> ro,
     name |-> nm, chunks |-> ch]

\* "a.txt" and "b.txt" as byte strings.
NameA == <<97, 46, 116, 120, 116>>
NameB == <<98, 46, 116, 120, 116>>

\* One chunk at offset 0 pointing at chunk 1.
ChunksA == << <<0, 1>> >>

EntryA == Entry(1000, 0, 420, 1, 1, 10, FALSE, NameA, ChunksA)

\* EntryA with exactly one attribute changed, every attribute in turn.
Variants ==
    { [EntryA EXCEPT !.unix_secs = 1001],
      [EntryA EXCEPT !.unix_secs = 1002],
      [EntryA EXCEPT !.unix_nanos = 5],
      [EntryA EXCEPT !.unix_perm = 384],
      [EntryA EXCEPT !.unix_uid = 2],
      [EntryA EXCEPT !.unix_gid = 2],
      [EntryA EXCEPT !.size = 11],
      [EntryA EXCEPT !.readonly = TRUE],
      [EntryA EXCEPT !.name = NameB],
      [EntryA EXCEPT !.chunks = << <<0, 2>> >>] }

\* The value a thread-local Entry slot holds when no call is in progress.
NoEntry == Entry(0, 0, 0, 0, 0, 0, FALSE, <<>>, <<>>)

\* #[derive(PartialEq, Eq)]: field-by-field comparison of all nine fields.
EntryEqNoSecs(a, b) ==
    /\ a.unix_nanos = b.unix_nanos
    /\ a.unix_perm = b.unix_perm
    /\ a.unix_uid = b.unix_uid
    /\ a.unix_gid = b.unix_gid
    /\ a.size = b.size
    /\ a.readonly = b.readonly
    /\ a.name = b.name
    /\ a.chunks = b.chunks

EntryEq(a, b) ==
    /\ a.unix_secs = b.unix_secs
    /\ a.unix_nanos = b.unix_nanos
    /\ a.unix_perm = b.unix_perm
    /\ a.unix_uid = b.unix_uid
    /\ a.unix_gid = b.unix_gid
    /\ a.size = b.size
    /\ a.readonly = b.readonly
    /\ a.name = b.name
    /\ a.chunks = b.chunks

\* #[derive(Hash)]: every field is fed to the hasher in declaration order;
\* a string is followed by 0xff, a Vec is preceded by its length.
RECURSIVE FlattenChunks(_)
FlattenChunks(ch) ==
    IF ch = <<>> THEN <<>>
    ELSE <<Head(ch)[1], Head(ch)[2]>> \o FlattenChunks(Tail(ch))

HashWords(e) ==
    <<e.unix_secs, e.unix_nanos, e.unix_perm, e.unix_uid, e.unix_gid,
      e.size, IF e.readonly THEN 1 ELSE 0>>
    \o e.name \o <<255>>
    \o <<Len(e.chunks)>> \o FlattenChunks(e.chunks)

RECURSIVE Hasher(_, _)
Hasher(h, words) ==
    IF words = <<>> THEN h
    ELSE Hasher((h * 31 + Head(words)) % HashSpace, Tail(words))

Hash(e) == Hasher(7, HashWords(e))

\* ---------------------------------------------------------------- DashMap
\* DashMap::determine_shard: the hash selects one shard.
DetermineShard(e) == Hash(e) % NShards

\* A shard is a HashMap<Arc<Entry>, ()>, kept as a bag of keys so that a
\* map that stored a key twice would show it.
EmptyShards == [s \in Shards |-> EmptyBag]

\* HashMap::contains_key inside the shard the hash selects.
ShardContains(shard, e) == \E m \in BagToSet(shard) : EntryEq(m, e)

\* DashMap::contains_key.
ContainsKeyFirstShard(map, e) == ShardContains(map[0], e)

ContainsKey(map, e) == ShardContains(map[DetermineShard(e)], e)

\* DashMap::insert: the key is added to its shard unless an equal key is there
\* (then only the unit value is replaced).
InsertAlways(map, e) ==
    LET s == DetermineShard(e)
    IN  [map EXCEPT ![s] = @ (+) SetToBag({e})]

InsertOverwrite(map, e) ==
    LET s == DetermineShard(e)
    IN  [map EXCEPT ![s] = SetToBag({e})]

Insert(map, e) ==
    LET s == DetermineShard(e)
    IN  IF ShardContains(map[s], e) THEN map
        ELSE [map EXCEPT ![s] = @ (+) SetToBag({e})]

\* The keys of the map, and DashMap::len.
Members(map) == UNION {BagToSet(map[s]) : s \in Shards}

RECURSIVE SumCard(_, _)
SumCard(map, S) ==
    IF S = {} THEN 0
    ELSE LET s == CHOOSE x \in S : TRUE
         IN  BagCardinality(map[s]) + SumCard(map, S \ {s})

Size(map) == SumCard(map, Shards)

\* --------------------------------------------------- FieldReader / FieldWriter
\* A record a FieldReader returns: Ok(Entry) or an error of some kind.
Ok(e) == [ok |-> TRUE, val |-> e, err |-> "none"]
Err(kind) == [ok |-> FALSE, val |-> NoEntry, err |-> kind]

\* FieldReader::read_next: the record at the reader's position, or the
\* end-of-stream error once the reader is exhausted.
ReadNext(r) == IF r.pos <= Len(r.items) THEN r.items[r.pos] ELSE Err("eof")

\* FieldWriter::write_next: one record is appended to the field.
WriteNext(w, e) == Append(w, e)

\* A reader that replays the records of a written field.
Replay(w) == [i \in 1..Len(w) |-> Ok(w[i])]

NoReader == [items |-> <<>>, pos |-> 1]
NoIter == [shard |-> -1, rest |-> EmptyBag]

\* ------------------------------------------------------------------ inputs
EntryA11 == [EntryA EXCEPT !.size = 11]
EntryB == [EntryA EXCEPT !.name = NameB]

\* Entries the worker threads push and query.
Pool == {EntryA, EntryA11, EntryB}

\* Entries of the full-value identity check: EntryA and its variants.
Universe == {EntryA} \cup Variants

\* Records a reader may hold.
Records == {Ok(EntryA), Ok(EntryB), Err("decode")}

Streams == UNION {[1..n -> Records] : n \in 0..MaxStream}

\* The reader restored while scanners race: it repeats a record.
RaceStreams == {<<Ok(EntryA), Ok(EntryA)>>}

\* ------------------------------------------------------- Entry::from_file
\* What the operating system reports for an open file: whether metadata() can
\* be read, the modification time relative to the epoch, st_mode, owner,
\* group, length and path; content is the chunk list the chunker returns.
File(okm, secs, nanos, mode, uid, gid, len, path, content) ==
    [meta_ok |-> okm, mtime_secs |-> secs, mtime_nanos |-> nanos, mode |-> mode,
     uid |-> uid, gid |-> gid, len |-> len, path |-> path, content |-> content]

\* Permissions::readonly on unix: no write bit (0o222) is set in the mode.
Readonly(mode) ==
    /\ (mode \div 128) % 2 = 0
    /\ (mode \div 16) % 2 = 0
    /\ (mode \div 2) % 2 = 0

\* to_unix_mtime: duration_since(UNIX_EPOCH) fails for a time before the epoch.
ToUnixMtime(f) ==
    IF f.mtime_secs < 0
    THEN [ok |-> FALSE, secs |-> 0, nanos |-> 0]
    ELSE [ok |-> TRUE, secs |-> f.mtime_secs, nanos |-> f.mtime_nanos]

\* Path::to_str: Some only when the bytes of the path are valid UTF-8.
Continuation(b) == b >= 128 /\ b <= 191

RECURSIVE Utf8Valid(_)
Utf8Valid(b) ==
    IF b = <<>> THEN TRUE
    ELSE LET h == Head(b)
             n == Len(b)
         IN  IF h < 128 THEN Utf8Valid(Tail(b))
             ELSE IF h >= 194 /\ h <= 223
             THEN /\ n >= 2 /\ Continuation(b[2])
                  /\ Utf8Valid(SubSeq(b, 3, n))
             ELSE IF h >= 224 /\ h <= 239
             THEN /\ n >= 3 /\ Continuation(b[2]) /\ Continuation(b[3])
                  /\ (h = 224 => b[2] >= 160)
                  /\ (h = 237 => b[2] <= 159)
                  /\ Utf8Valid(SubSeq(b, 4, n))
             ELSE IF h >= 240 /\ h <= 244
             THEN /\ n >= 4 /\ Continuation(b[2]) /\ Continuation(b[3])
                  /\ Continuation(b[4])
                  /\ (h = 240 => b[2] >= 144)
                  /\ (h = 244 => b[2] <= 143)
                  /\ Utf8Valid(SubSeq(b, 5, n))
             ELSE FALSE

\* Option::unwrap on None: the thread panics, nothing is returned.
Panic == [ok |-> FALSE, val |-> NoEntry, err |-> "panic"]

\* Entry::from_file (unix): the metadata error and the clock error are
\* propagated by `?`; then the struct is built, and to_str().unwrap() panics
\* on a path that is not UTF-8; otherwise the Entry carries the metadata and
\* no chunks.
FromFile(f) ==
    IF ~f.meta_ok THEN Err("io")
    ELSE IF ~ToUnixMtime(f).ok THEN Err("clock")
    ELSE IF ~Utf8Valid(f.path) THEN Panic
    ELSE Ok(Entry(ToUnixMtime(f).secs, ToUnixMtime(f).nanos, f.mode, f.uid,
                  f.gid, f.len, Readonly(f.mode), f.path, <<>>))

\* The Entry a scanner pushes for a file: its metadata plus its chunk list.
FinalEntry(f) == [FromFile(f).val EXCEPT !.chunks = f.content]

FileA == File(TRUE, 1000, 0, 420, 1, 1, 10, NameA, ChunksA)
FileEmpty == File(TRUE, 1000, 0, 420, 1, 1, 0, NameB, <<>>)
FileOld == File(TRUE, -5, 0, 420, 1, 1, 10, NameA, ChunksA)
FileGone == File(FALSE, 1000, 0, 420, 1, 1, 10, NameA, ChunksA)

\* A file whose name starts with the byte 0xff, which no UTF-8 string holds.
NameRaw == <<255, 46, 116, 120, 116>>
FileRaw == File(TRUE, 1000, 0, 420, 1, 1, 10, NameRaw, ChunksA)

Files == {FileA, FileEmpty, FileOld, FileGone, FileRaw}

\* The files racing scanners visit.
RaceFiles == {FileA, FileEmpty}

NoScan == [stage |-> "none", file |-> FileGone, entry |-> NoEntry,
           err |-> "none", indexed |-> FALSE]

\* ------------------------------------------------------------------- state
VARIABLES
    store,      \* FileStore handle -> the FileIndex its Arc points to (0: none)
    root,       \* handle -> the handle it was cloned from, transitively
    index,      \* FileIndex -> its shards
    pc,         \* thread -> the step of the call it is in
    self0,      \* thread -> the FileIndex self.0 of the call points to
    arg,        \* thread -> the Entry argument of the call
    res,        \* thread -> the value has_changed computed
    it,         \* thread -> the DashMap iterator of serialize
    wbuf,       \* thread -> the records serialize has written so far
    rd,         \* thread -> the reader deserialize consumes
    snap,       \* thread -> members of the index when the call started
    sync,       \* thread -> the call started after push(arg) had returned
    returned,   \* bag of the <<index, Entry>> of every push that has returned
    answered,   \* the <<index, Entry>> for which has_changed has returned false
    inserted,   \* the <<index, Entry>> handed to DashMap::insert so far
    buffer,     \* the field written by the last serialize that returned
    bufferSrc,  \* members of the index that serialize walked
    budget,     \* calls the run may still make
    scan        \* thread -> the file it is scanning and how far it got

vars == <<store, root, index, pc, self0, arg, res, it, wbuf, rd, snap, sync,
          returned, answered, inserted, buffer, bufferSrc, budget, scan>>

threadVars == <<pc, self0, arg, res, it, wbuf, rd, snap, sync>>

\* The index behind a handle.
IndexOf(h) == index[store[h]]

\* The index the call of thread t works on.
Self(t) == self0[t]

\* A DashMap iterator holds the read guard of the shard it is walking.
ReadLocked(ix, s) ==
    \E t \in Threads : pc[t] = "serialize" /\ Self(t) = ix /\ it[t].shard = s

\* FileStore::default(): one handle over one empty index; the run may make n
\* calls.
InitWith(n) ==
    /\ store = [h \in Handles |-> IF h = 1 THEN 1 ELSE 0]
    /\ root = [h \in Handles |-> IF h = 1 THEN 1 ELSE 0]
    /\ index = [ix \in Indexes |-> EmptyShards]
    /\ pc = [t \in Threads |-> "idle"]
    /\ self0 = [t \in Threads |-> 1]
    /\ arg = [t \in Threads |-> NoEntry]
    /\ res = [t \in Threads |-> FALSE]
    /\ it = [t \in Threads |-> NoIter]
    /\ wbuf = [t \in Threads |-> <<>>]
    /\ rd = [t \in Threads |-> NoReader]
    /\ snap = [t \in Threads |-> {}]
    /\ sync = [t \in Threads |-> FALSE]
    /\ returned = EmptyBag
    /\ answered = {}
    /\ inserted = {}
    /\ buffer = <<>>
    /\ bufferSrc = {}
    /\ budget = n
    /\ scan = [t \in Threads |-> NoScan]

Init == InitWith(MaxCalls)

InitSeq == InitWith(MaxSeqCalls)

InitRace == InitWith(MaxRaceCalls)

\* ----------------------------------------------------------------- handles
FreeHandle == CHOOSE h \in Handles : store[h] = 0 /\ \A g \in Handles : store[g] = 0 => h <= g
FreeIndex == CHOOSE ix \in Indexes : \A h \in Handles : store[h] # ix

\* #[derive(Default)]: a new handle over a new, empty index.
NewStore ==
    /\ \E h \in Handles : store[h] = 0
    /\ store' = [store EXCEPT ![FreeHandle] = FreeIndex]
    /\ root' = [root EXCEPT ![FreeHandle] = FreeHandle]
    /\ UNCHANGED <<index, threadVars, returned, answered, inserted, buffer, bufferSrc, budget, scan>>

\* #[derive(Clone)] on FileStore(Arc<FileIndex>): the Arc is cloned, so the
\* new handle points to the same index.
CloneCopy(h) ==
    /\ store[h] # 0
    /\ \E g \in Handles : store[g] = 0
    /\ store' = [store EXCEPT ![FreeHandle] = FreeIndex]
    /\ index' = [index EXCEPT ![FreeIndex] = index[store[h]]]
    /\ root' = [root EXCEPT ![FreeHandle] = root[h]]
    /\ UNCHANGED <<threadVars, returned, answered, inserted, buffer, bufferSrc, budget, scan>>

Clone(h) ==
    /\ store[h] # 0
    /\ \E g \in Handles : store[g] = 0
    /\ store' = [store EXCEPT ![FreeHandle] = store[h]]
    /\ root' = [root EXCEPT ![FreeHandle] = root[h]]
    /\ UNCHANGED <<index, threadVars, returned, answered, inserted, buffer, bufferSrc, budget, scan>>

\* ----------------------------------------------------------------- FileStore
\* A thread leaves a call: its locals are dropped.
Leave(t) ==
    /\ pc' = [pc EXCEPT ![t] = "idle"]
    /\ self0' = [self0 EXCEPT ![t] = 1]
    /\ arg' = [arg EXCEPT ![t] = NoEntry]
    /\ res' = [res EXCEPT ![t] = FALSE]
    /\ it' = [it EXCEPT ![t] = NoIter]
    /\ wbuf' = [wbuf EXCEPT ![t] = <<>>]
    /\ rd' = [rd EXCEPT ![t] = NoReader]
    /\ snap' = [snap EXCEPT ![t] = {}]
    /\ sync' = [sync EXCEPT ![t] = FALSE]

\* A thread enters a call through handle h.
Enter(t, h, step, e) ==
    /\ pc[t] = "idle"
    /\ store[h] # 0
    /\ budget > 0
    /\ budget' = budget - 1
    /\ pc' = [pc EXCEPT ![t] = step]
    /\ self0' = [self0 EXCEPT ![t] = store[h]]
    /\ arg' = [arg EXCEPT ![t] = e]
    /\ snap' = [snap EXCEPT ![t] = IF e = NoEntry THEN Members(IndexOf(h)) ELSE {}]
    /\ sync' = [sync EXCEPT ![t] = step = "has_changed" /\ <<store[h], e>> \in BagToSet(returned)]

\* push(&mut self, file) is called.
PushCall(t, h, e) ==
    /\ Enter(t, h, "push", e)
    /\ UNCHANGED <<store, root, index, res, it, wbuf, rd, returned, answered, inserted, buffer, bufferSrc, scan>>

\* push: self.0.insert(Arc::new(file), ()) under the shard's write lock,
\* then the call returns.
PushInsert(t) ==
    /\ pc[t] = "push"
    /\ ~ReadLocked(Self(t), DetermineShard(arg[t]))
    /\ index' = [index EXCEPT ![Self(t)] = Insert(@, arg[t])]
    /\ returned' = returned (+) SetToBag({<<Self(t), arg[t]>>})
    /\ inserted' = inserted \cup {<<Self(t), arg[t]>>}
    /\ Leave(t)
    /\ UNCHANGED <<store, root, answered, buffer, bufferSrc, budget, scan>>

\* has_changed(&self, file) is called.
HasChangedCall(t, h, e) ==
    /\ Enter(t, h, "has_changed", e)
    /\ UNCHANGED <<store, root, index, res, it, wbuf, rd, returned, answered, inserted, buffer, bufferSrc, scan>>

\* has_changed: !self.0.contains_key(file) under the shard's read lock.
HasChangedCheckInsert(t) ==
    /\ pc[t] = "has_changed"
    /\ res' = [res EXCEPT ![t] = ~ContainsKey(index[Self(t)], arg[t])]
    /\ pc' = [pc EXCEPT ![t] = "hc_ret"]
    /\ index' = [index EXCEPT ![Self(t)] = Insert(@, arg[t])]
    /\ UNCHANGED <<store, root, self0, arg, it, wbuf, rd, snap, sync,
                   returned, answered, inserted, buffer, bufferSrc, budget, scan>>

HasChangedCheck(t) ==
    /\ pc[t] = "has_changed"
    /\ res' = [res EXCEPT ![t] = ~ContainsKey(index[Self(t)], arg[t])]
    /\ pc' = [pc EXCEPT ![t] = "hc_ret"]
    /\ UNCHANGED <<store, root, index, self0, arg, it, wbuf, rd, snap, sync,
                   returned, answered, inserted, buffer, bufferSrc, budget, scan>>

\* has_changed returns res[t] to its caller.
HasChangedReturn(t) ==
    /\ pc[t] = "hc_ret"
    /\ answered' = IF res[t] THEN answered ELSE answered \cup {<<Self(t), arg[t]>>}
    /\ Leave(t)
    /\ UNCHANGED <<store, root, index, returned, inserted, buffer, bufferSrc, budget, scan>>

\* ------------------------------------------------------------- serialize
\* serialize(&self, mw) is called: self.0.iter() creates the iterator, which
\* holds no shard yet.
SerializeCall(t, h) ==
    /\ Enter(t, h, "serialize", NoEntry)
    /\ UNCHANGED <<store, root, index, res, it, wbuf, rd, returned, answered, inserted, buffer, bufferSrc, scan>>

\* Iter::next when the current shard is exhausted: its read guard is dropped
\* and the next shard is read-locked.
SerializeAdvanceSkip(t) ==
    /\ pc[t] = "serialize"
    /\ it[t].rest = EmptyBag
    /\ it[t].shard < NShards - 1
    /\ it' = [it EXCEPT ![t] = [shard |-> NShards - 1,
                               rest |-> index[Self(t)][NShards - 1]]]
    /\ UNCHANGED <<store, root, index, pc, self0, arg, res, wbuf, rd, snap, sync,
                   returned, answered, inserted, buffer, bufferSrc, budget, scan>>

SerializeAdvance(t) ==
    /\ pc[t] = "serialize"
    /\ it[t].rest = EmptyBag
    /\ it[t].shard < NShards - 1
    /\ it' = [it EXCEPT ![t] = [shard |-> it[t].shard + 1,
                               rest |-> index[Self(t)][it[t].shard + 1]]]
    /\ UNCHANGED <<store, root, index, pc, self0, arg, res, wbuf, rd, snap, sync,
                   returned, answered, inserted, buffer, bufferSrc, budget, scan>>

\* One turn of the for loop: Iter::next yields a key of the current shard (in
\* the hash map's order, which is arbitrary) and mw.write_next(f.key()).
SerializeWriteStall(t) ==
    /\ pc[t] = "serialize"
    /\ it[t].rest # EmptyBag
    /\ UNCHANGED vars

SerializeWrite(t) ==
    /\ pc[t] = "serialize"
    /\ \E e \in BagToSet(it[t].rest) :
          /\ wbuf' = [wbuf EXCEPT ![t] = WriteNext(@, e)]
          /\ it' = [it EXCEPT ![t].rest = @ (-) SetToBag({e})]
    /\ UNCHANGED <<store, root, index, pc, self0, arg, res, rd, snap, sync,
                   returned, answered, inserted, buffer, bufferSrc, budget, scan>>

\* Iter::next returns None after the last shard: the loop ends, the iterator
\* and its guard are dropped and serialize returns.
SerializeReturn(t) ==
    /\ pc[t] = "serialize"
    /\ it[t].rest = EmptyBag
    /\ it[t].shard = NShards - 1
    /\ buffer' = wbuf[t]
    /\ bufferSrc' = Members(index[Self(t)])
    /\ Leave(t)
    /\ UNCHANGED <<store, root, index, returned, answered, inserted, budget, scan>>

\* ----------------------------------------------------------- deserialize
\* deserialize(&self, mw) is called with a reader over the given records.
DeserializeCall(t, h, items) ==
    /\ Enter(t, h, "deserialize", NoEntry)
    /\ rd' = [rd EXCEPT ![t] = [items |-> items, pos |-> 1]]
    /\ UNCHANGED <<store, root, index, res, it, wbuf, returned, answered, inserted, buffer, bufferSrc, scan>>

\* while let Ok(file) = mw.read_next(): the record is inserted and the loop
\* goes on.
DeserializeInsertOnce(t) ==
    /\ pc[t] = "deserialize"
    /\ ReadNext(rd[t]).ok
    /\ ~ReadLocked(Self(t), DetermineShard(ReadNext(rd[t]).val))
    /\ index' = [index EXCEPT ![Self(t)] = Insert(@, ReadNext(rd[t]).val)]
    /\ inserted' = inserted \cup {<<Self(t), ReadNext(rd[t]).val>>}
    /\ rd' = [rd EXCEPT ![t].pos = @ + 1]
    /\ pc' = [pc EXCEPT ![t] = "de_ret"]
    /\ UNCHANGED <<store, root, self0, arg, res, it, wbuf, snap, sync,
                   returned, answered, buffer, bufferSrc, budget, scan>>

DeserializeInsert(t) ==
    /\ pc[t] = "deserialize"
    /\ ReadNext(rd[t]).ok
    /\ ~ReadLocked(Self(t), DetermineShard(ReadNext(rd[t]).val))
    /\ index' = [index EXCEPT ![Self(t)] = Insert(@, ReadNext(rd[t]).val)]
    /\ inserted' = inserted \cup {<<Self(t), ReadNext(rd[t]).val>>}
    /\ rd' = [rd EXCEPT ![t].pos = @ + 1]
    /\ UNCHANGED <<store, root, pc, self0, arg, res, it, wbuf, snap, sync,
                   returned, answered, buffer, bufferSrc, budget, scan>>

\* read_next returned Err: the pattern does not match and the loop ends. A
\* reader that is not exhausted has consumed the failing record.
DeserializeSkip(t) ==
    /\ pc[t] = "deserialize"
    /\ ~ReadNext(rd[t]).ok
    /\ rd' = [rd EXCEPT ![t].pos = IF @ <= Len(rd[t].items) THEN @ + 1 ELSE @]
    /\ pc' = [pc EXCEPT ![t] = IF ReadNext(rd[t]).err = "eof" THEN "de_ret" ELSE @]
    /\ UNCHANGED <<store, root, index, self0, arg, res, it, wbuf, snap, sync,
                   returned, answered, inserted, buffer, bufferSrc, budget, scan>>

DeserializeStop(t) ==
    /\ pc[t] = "deserialize"
    /\ ~ReadNext(rd[t]).ok
    /\ rd' = [rd EXCEPT ![t].pos = IF @ <= Len(rd[t].items) THEN @ + 1 ELSE @]
    /\ pc' = [pc EXCEPT ![t] = "de_ret"]
    /\ UNCHANGED <<store, root, index, self0, arg, res, it, wbuf, snap, sync,
                   returned, answered, inserted, buffer, bufferSrc, budget, scan>>

\* deserialize returns ().
DeserializeReturn(t) ==
    /\ pc[t] = "de_ret"
    /\ Leave(t)
    /\ UNCHANGED <<store, root, index, returned, answered, inserted, buffer, bufferSrc, budget, scan>>

\* -------------------------------------------------------- specifications
\* Worker threads call into the stores concurrently.
Next ==
    \/ \E h \in Handles : Clone(h)
    \/ \E t \in Threads, h \in Handles, e \in Pool : PushCall(t, h, e)
    \/ \E t \in Threads : PushInsert(t)
    \/ \E t \in Threads, h \in Handles, e \in Pool : HasChangedCall(t, h, e)
    \/ \E t \in Threads : HasChangedCheck(t)
    \/ \E t \in Threads : HasChangedReturn(t)
    \/ \E t \in Threads, h \in Handles : SerializeCall(t, h)
    \/ \E t \in Threads : SerializeAdvance(t)
    \/ \E t \in Threads : SerializeWrite(t)
    \/ \E t \in Threads : SerializeReturn(t)
    \/ \E t \in Threads, h \in Handles, items \in {Replay(buffer)} :
          DeserializeCall(t, h, items)
    \/ \E t \in Threads : DeserializeInsert(t)
    \/ \E t \in Threads : DeserializeStop(t)
    \/ \E t \in Threads : DeserializeReturn(t)

Spec == Init /\ [][Next]_vars

\* Worker threads push, query and persist one store concurrently.
NextLive ==
    \/ \E t \in Threads, e \in Pool : PushCall(t, 1, e)
    \/ \E t \in Threads : PushInsert(t)
    \/ \E t \in Threads, e \in Pool : HasChangedCall(t, 1, e)
    \/ \E t \in Threads : HasChangedCheck(t)
    \/ \E t \in Threads : HasChangedReturn(t)
    \/ \E t \in Threads : SerializeCall(t, 1)
    \/ \E t \in Threads : SerializeAdvance(t)
    \/ \E t \in Threads : SerializeWrite(t)
    \/ \E t \in Threads : SerializeReturn(t)

\* A step of the call thread t is in. The scheduler runs every thread that
\* can run, and a thread waiting for a shard lock is woken when it is free.
Step(t) ==
    \/ PushInsert(t)
    \/ HasChangedCheck(t)
    \/ HasChangedReturn(t)
    \/ SerializeAdvance(t)
    \/ SerializeWrite(t)
    \/ SerializeReturn(t)

SpecLive == Init /\ [][NextLive]_vars /\ \A t \in Threads : WF_vars(Step(t))

\* One thread works alone on one store that it fills by push and by
\* deserialize from any reader.
Main == CHOOSE t \in Threads : \A u \in Threads : t <= u

NextRestore ==
    \/ \E e \in Pool : PushCall(Main, 1, e)
    \/ PushInsert(Main)
    \/ \E e \in Pool : HasChangedCall(Main, 1, e)
    \/ HasChangedCheck(Main)
    \/ HasChangedReturn(Main)
    \/ \E items \in Streams : DeserializeCall(Main, 1, items)
    \/ DeserializeInsert(Main)
    \/ DeserializeStop(Main)
    \/ DeserializeReturn(Main)

SpecRestore == InitSeq /\ [][NextRestore]_vars

\* One thread fills a store, persists it and restores the written field into
\* any store, a fresh one included.
NextRoundTrip ==
    \/ NewStore
    \/ \E h \in Handles, e \in Pool : PushCall(Main, h, e)
    \/ PushInsert(Main)
    \/ \E h \in Handles : SerializeCall(Main, h)
    \/ SerializeAdvance(Main)
    \/ SerializeWrite(Main)
    \/ SerializeReturn(Main)
    \/ \E h \in Handles, items \in {Replay(buffer)} : DeserializeCall(Main, h, items)
    \/ DeserializeInsert(Main)
    \/ DeserializeStop(Main)
    \/ DeserializeReturn(Main)

SpecRoundTrip == InitSeq /\ [][NextRoundTrip]_vars

\* --------------------------------------------------------------- scan flow
\* A scanner thread builds the Entry of a file from its metadata. A thread
\* that panicked in from_file unwinds and takes no further step.
ScanFromFile(t, f) ==
    /\ pc[t] = "idle"
    /\ scan[t].stage = "none"
    /\ budget > 0
    /\ scan' = [scan EXCEPT ![t] =
                  [stage |-> IF FromFile(f).ok THEN "built"
                             ELSE IF FromFile(f) = Panic THEN "panicked"
                             ELSE "error",
                   file |-> f, entry |-> FromFile(f).val,
                   err |-> FromFile(f).err, indexed |-> FALSE]]
    /\ UNCHANGED <<store, root, index, threadVars, returned, answered, inserted, buffer, bufferSrc, budget>>

\* The scanner asks the store whether this exact Entry is already indexed.
ScanAsk(t, h) ==
    /\ scan[t].stage = "built"
    /\ Enter(t, h, "has_changed", scan[t].entry)
    /\ scan' = [scan EXCEPT ![t].stage = "asked",
                            ![t].indexed = <<store[h], FinalEntry(scan[t].file)>> \in BagToSet(returned)]
    /\ UNCHANGED <<store, root, index, res, it, wbuf, rd, returned, answered, inserted, buffer, bufferSrc>>

\* has_changed returned: an indexed file is skipped, a changed one goes to the
\* chunker.
ScanDecide(t) ==
    /\ pc[t] = "hc_ret"
    /\ scan[t].stage = "asked"
    /\ scan' = [scan EXCEPT ![t] = IF res[t] THEN [@ EXCEPT !.stage = "chunking"] ELSE NoScan]
    /\ answered' = IF res[t] THEN answered ELSE answered \cup {<<Self(t), arg[t]>>}
    /\ Leave(t)
    /\ UNCHANGED <<store, root, index, returned, inserted, buffer, bufferSrc, budget>>

\* The chunker returned the chunk list: the scanner assembles the final Entry
\* and pushes it through the handle it asked.
ScanPush(t, h) ==
    /\ scan[t].stage = "chunking"
    /\ Enter(t, h, "push", FinalEntry(scan[t].file))
    /\ scan' = [scan EXCEPT ![t].stage = "pushing",
                            ![t].entry = FinalEntry(scan[t].file)]
    /\ UNCHANGED <<store, root, index, res, it, wbuf, rd, returned, answered, inserted, buffer, bufferSrc>>

\* The scanner is done with the file: it was pushed, or from_file failed and
\* the file is reported.
ScanFinish(t) ==
    /\ pc[t] = "idle"
    /\ scan[t].stage \in {"pushing", "error"}
    /\ scan' = [scan EXCEPT ![t] = NoScan]
    /\ UNCHANGED <<store, root, index, threadVars, returned, answered, inserted, buffer, bufferSrc, budget>>

NextScan ==
    \/ \E t \in Threads, f \in Files : ScanFromFile(t, f)
    \/ \E t \in Threads, h \in Handles : ScanAsk(t, h)
    \/ \E t \in Threads : HasChangedCheck(t)
    \/ \E t \in Threads : ScanDecide(t)
    \/ \E t \in Threads, h \in Handles : ScanPush(t, h)
    \/ \E t \in Threads : PushInsert(t)
    \/ \E t \in Threads : ScanFinish(t)

SpecScan == Init /\ [][NextScan]_vars

\* Scanner threads race on one store (each asks has_changed and pushes what it
\* was told has changed) while threads restore records into the same store.
NextUnique ==
    \/ \E t \in Threads, f \in RaceFiles : ScanFromFile(t, f)
    \/ \E t \in Threads : ScanAsk(t, 1)
    \/ \E t \in Threads : HasChangedCheck(t)
    \/ \E t \in Threads : ScanDecide(t)
    \/ \E t \in Threads : ScanPush(t, 1)
    \/ \E t \in Threads : PushInsert(t)
    \/ \E t \in Threads : ScanFinish(t)
    \/ \E t \in Threads, items \in RaceStreams : DeserializeCall(t, 1, items)
    \/ \E t \in Threads : DeserializeInsert(t)
    \/ \E t \in Threads : DeserializeStop(t)
    \/ \E t \in Threads : DeserializeReturn(t)

SpecUnique == InitRace /\ [][NextUnique]_vars

\* One thread pushes and queries Entries that differ in a single attribute.
NextIdentity ==
    \/ \E h \in Handles, e \in Universe : PushCall(Main, h, e)
    \/ PushInsert(Main)
    \/ \E h \in Handles, e \in Universe : HasChangedCall(Main, h, e)
    \/ HasChangedCheck(Main)
    \/ HasChangedReturn(Main)

SpecIdentity == InitSeq /\ [][NextIdentity]_vars

\* ------------------------------------------------------------ properties
Range(w) == {w[i] : i \in 1..Len(w)}

NoDup(w) == \A i, j \in 1..Len(w) : w[i] = w[j] => i = j

\* The attributes of an Entry, and Entries that differ in exactly one.
Attributes ==
    {"unix_secs", "unix_nanos", "unix_perm", "unix_uid", "unix_gid", "size",
     "readonly", "name", "chunks"}

DiffersInOne(a, b) == Cardinality({f \in Attributes : a[f] # b[f]}) = 1

\* A thread has walked every shard and is about to leave the for loop.
IterationDone(t) ==
    /\ pc[t] = "serialize"
    /\ it[t].shard = NShards - 1
    /\ it[t].rest = EmptyBag

\* Position of the first record of a reader that is an error (one past the
\* end when every record is Ok).
RECURSIVE FirstErr(_, _)
FirstErr(items, i) ==
    IF i > Len(items) \/ ~items[i].ok THEN i ELSE FirstErr(items, i + 1)

\* C1: whenever has_changed(e) computes its answer, in any reachable state of
\* the index and under any interleaving, the answer is true exactly when no
\* member of the index is equal to e.
HasChangedIffAbsent ==
    [][\A t \in Threads :
          (pc[t] = "has_changed" /\ pc'[t] = "hc_ret")
              => (res'[t] = (\A m \in Members(index[Self(t)]) : m # arg[t]))]_vars

\* Two queries have answered, one true for an absent Entry and one false for a
\* member.
HasChangedIffAbsentWitness ==
    \E t, u \in Threads :
        /\ pc[t] = "hc_ret" /\ res[t] /\ arg[t] \notin Members(index[Self(t)])
        /\ pc[u] = "hc_ret" /\ ~res[u] /\ arg[u] \in Members(index[Self(u)])

\* C2: a push of an Entry that is already a member leaves the membership and
\* the size of the index as they were, so pushing e twice gives the same set
\* and the same size as pushing it once.
PushIdempotent ==
    [][\A t \in Threads :
          (pc[t] = "push" /\ pc'[t] = "idle" /\ arg[t] \in Members(index[Self(t)]))
              => /\ Members(index'[Self(t)]) = Members(index[Self(t)])
                 /\ Size(index'[Self(t)]) = Size(index[Self(t)])]_vars

\* The same Entry has been pushed twice into an index that holds it once.
PushIdempotentWitness ==
    \E ix \in Indexes, e \in Pool :
        /\ CopiesIn(<<ix, e>>, returned) >= 2
        /\ Members(index[ix]) = {e}
        /\ Size(index[ix]) = 1

\* C3: Entry identity is the full value. When the index holds an Entry that
\* differs from e in exactly one attribute (any of the nine) and does not hold
\* e itself, has_changed(e) is true.
FullValueIdentity ==
    (/\ pc[Main] = "hc_ret"
     /\ arg[Main] \notin Members(index[Self(Main)])
     /\ \E m \in Members(index[Self(Main)]) : DiffersInOne(m, arg[Main]))
        => res[Main]

\* After push(EntryA) alone, every variant of EntryA is reported as changed;
\* this state shows it for a variant that differs only in unix_secs and lives
\* in EntryA's shard.
FullValueIdentityWitness ==
    /\ pc[Main] = "hc_ret"
    /\ Members(index[Self(Main)]) = {EntryA}
    /\ arg[Main] = [EntryA EXCEPT !.unix_secs = 1002]
    /\ DetermineShard(arg[Main]) = DetermineShard(EntryA)
    /\ res[Main]

\* C4: round trip. When deserialize has consumed a reader that replays the
\* field written by serialize, into an index that was empty when deserialize
\* was called, the index holds exactly the Entries of the serialized index,
\* and has_changed is false for each of them.
RoundTrip ==
    (/\ pc[Main] = "de_ret"
     /\ rd[Main].items = Replay(buffer)
     /\ snap[Main] = {})
        => /\ Members(index[Self(Main)]) = bufferSrc
           /\ \A e \in bufferSrc : ContainsKey(index[Self(Main)], e)

\* Two Entries pushed into the first store were serialized and restored into
\* a second, fresh store.
RoundTripWitness ==
    /\ pc[Main] = "de_ret"
    /\ rd[Main].items = Replay(buffer)
    /\ snap[Main] = {}
    /\ Self(Main) # 1
    /\ Cardinality(bufferSrc) = 2
    /\ Members(index[1]) = bufferSrc
    /\ Members(index[Self(Main)]) = bufferSrc

\* The Entries whose push into index ix has returned.
Pushed(ix) == {p[2] : p \in {q \in BagToSet(returned) : q[1] = ix}}

\* C5: when every call made so far was a push that has returned and the pushed
\* Entries are pairwise distinct, whatever the interleaving of the pushing
\* threads, the index holds exactly the pushed Entries, each once.
ConcurrentPushesKept ==
    (/\ MaxCalls - budget = BagCardinality(returned)
     /\ \A p \in BagToSet(returned) : CopiesIn(p, returned) = 1)
        => \A ix \in Indexes :
              /\ Members(index[ix]) = Pushed(ix)
              /\ Size(index[ix]) = Cardinality(Pushed(ix))

\* As many distinct Entries as there are threads were pushed and all are there.
ConcurrentPushesKeptWitness ==
    /\ MaxCalls - budget = NThreads
    /\ BagCardinality(returned) = NThreads
    /\ Cardinality(Pushed(1)) = NThreads
    /\ Size(index[1]) = NThreads
    /\ \A t \in Threads : pc[t] = "idle"

\* C6: a has_changed(e) call that started after a push(e) into the same index
\* had returned answers false, through whichever handle it was made.
PushVisible ==
    \A t \in Threads : (pc[t] = "hc_ret" /\ sync[t]) => ~res[t]

\* Such a query answered false on an index that has two handles while another
\* thread was in the middle of a push of another Entry.
PushVisibleWitness ==
    \E t, u \in Threads :
        /\ pc[t] = "hc_ret" /\ sync[t] /\ ~res[t]
        /\ pc[u] = "push" /\ arg[u] # arg[t] /\ Self(u) = Self(t)
        /\ \E h \in Handles : h # 1 /\ store[h] = Self(t)

\* C7: handles that descend from the same FileStore by cloning observe the
\* same index: the same members and the same has_changed answers.
ClonesShareIndex ==
    \A g, h \in Handles :
        (store[g] # 0 /\ store[h] # 0 /\ root[g] = root[h])
            => /\ Members(IndexOf(g)) = Members(IndexOf(h))
               /\ \A e \in Pool : ContainsKey(IndexOf(g), e) = ContainsKey(IndexOf(h), e)

\* A clone exists, an Entry was pushed and a deserialize through the clone has
\* inserted a record.
ClonesShareIndexWitness ==
    \E h \in Handles, t \in Threads :
        /\ h # 1 /\ store[h] # 0 /\ root[h] = root[1]
        /\ BagCardinality(returned) > 0
        /\ pc[t] = "de_ret" /\ Self(t) = store[h] /\ rd[t].pos > 1
        /\ Members(IndexOf(1)) # {}

\* C8: the records serialize writes never repeat an Entry and are members of
\* the index; once the iteration is over they include every Entry that was in
\* the index when serialize was called (Entries pushed meanwhile may be
\* missing).
WeaklyConsistentIteration ==
    \A t \in Threads :
        /\ pc[t] = "serialize"
              => /\ NoDup(wbuf[t])
                 /\ Range(wbuf[t]) \subseteq Members(index[Self(t)])
        /\ IterationDone(t) => snap[t] \subseteq Range(wbuf[t])

\* An iteration ended that wrote the Entries present at its start and missed
\* one pushed while it ran.
WeaklyConsistentIterationWitness ==
    \E t \in Threads :
        /\ IterationDone(t)
        /\ snap[t] # {}
        /\ Range(wbuf[t]) = snap[t]
        /\ Members(index[Self(t)]) # snap[t]

\* C9: a scanner that rescans a file whose final Entry (same metadata, with
\* its chunk list) was pushed before gets false from has_changed and skips
\* the file.
RescanSkips ==
    \A t \in Threads :
        (pc[t] = "hc_ret" /\ scan[t].stage = "asked" /\ scan[t].indexed)
            => ~res[t]

\* C10: when deserialize is over, the reader stands just past its first
\* failing record (or at its end), and the index holds what it held before
\* plus the records read successfully before that failure.
DeserializeStopsAtFirstError ==
    (pc[Main] = "de_ret")
        => LET items == rd[Main].items
               k == FirstErr(items, 1)
           IN  /\ rd[Main].pos = IF k <= Len(items) THEN k + 1 ELSE k
               /\ Members(index[Self(Main)])
                     = snap[Main] \cup {items[i].val : i \in 1..(k - 1)}

\* A reader with a record before and a record after a decode failure: the
\* first was inserted, the last was neither read nor inserted.
DeserializeStopsAtFirstErrorWitness ==
    /\ pc[Main] = "de_ret"
    /\ rd[Main].items = <<Ok(EntryA), Err("decode"), Ok(EntryB)>>
    /\ rd[Main].pos = 3
    /\ Members(index[Self(Main)]) = {EntryA}

\* C11: no deletion. No step of any call, under any interleaving, takes a
\* member out of an index; and once has_changed(e) has returned false on an
\* index, every has_changed(e) on that index that computes its answer
\* afterwards answers false.
NoDeletion ==
    [][/\ \A ix \in Indexes : Members(index[ix]) \subseteq Members(index'[ix])
       /\ \A t \in Threads :
             (/\ pc[t] = "has_changed" /\ pc'[t] = "hc_ret"
              /\ <<Self(t), arg[t]>> \in answered)
                 => ~res'[t]]_vars

\* has_changed(e) returned false, and a later has_changed(e) on the same index
\* has answered false again.
NoDeletionWitness ==
    \E t \in Threads :
        /\ pc[t] = "hc_ret" /\ ~res[t]
        /\ <<Self(t), arg[t]>> \in answered
        /\ arg[t] \in Members(index[Self(t)])

\* C12: has_changed is a pure query. Every step of a has_changed call (its
\* entry, the contains_key lookup and its return, whether the answer is true
\* or false) leaves the member set and the size of every index as they were.
HasChangedPure ==
    [][\A t \in Threads :
          (\/ pc[t] = "idle" /\ pc'[t] = "has_changed"
           \/ pc[t] = "has_changed" /\ pc'[t] = "hc_ret"
           \/ pc[t] = "hc_ret" /\ pc'[t] = "idle")
              => \A ix \in Indexes :
                    /\ Members(index'[ix]) = Members(index[ix])
                    /\ Size(index'[ix]) = Size(index[ix])]_vars

\* On an index of one member, a query for that member has returned false and a
\* query for another Entry has answered true; the index still has that one
\* member.
HasChangedPureWitness ==
    \E t \in Threads :
        /\ pc[t] = "hc_ret" /\ res[t]
        /\ \E e \in Pool :
              /\ <<Self(t), e>> \in answered
              /\ Members(index[Self(t)]) = {e}
        /\ Size(index[Self(t)]) = 1

\* The Entries handed to DashMap::insert on index ix so far.
Inserted(ix) == {p[2] : p \in {q \in inserted : q[1] = ix}}

\* C13: uniqueness. In every reachable state, under any interleaving of pushes
\* and deserialize calls (threads that push equal Entries at the same time
\* after each was told has_changed = true included), no index holds two equal
\* members and the size of an index is the number of distinct Entries
\* inserted into it so far.
Uniqueness ==
    \A ix \in Indexes :
        /\ \A s \in Shards : \A m \in BagToSet(index[ix][s]) :
              /\ CopiesIn(m, index[ix][s]) = 1
              /\ \A r \in Shards : \A n \in BagToSet(index[ix][r]) :
                    EntryEq(m, n) => (r = s /\ n = m)
        /\ Size(index[ix]) = Cardinality(Inserted(ix))

\* Two threads scanned the same file, were told it had changed and pushed the
\* same Entry; all pushes have returned and the index holds it once.
UniquenessWitness ==
    /\ \E t, u \in Threads :
          /\ t # u
          /\ scan[t].stage = "pushing" /\ pc[t] = "idle"
          /\ scan[u].stage = "pushing" /\ pc[u] = "idle"
          /\ scan[t].entry = EntryA /\ scan[u].entry = EntryA
    /\ CopiesIn(<<1, EntryA>>, returned) = 2
    /\ Size(index[1]) = 1

\* C14: has_changed and push always complete. Under fair scheduling every
\* has_changed and every push that was called returns, whatever the other
\* threads do on the same index (a serialize holding shard guards, other
\* pushes); has_changed returns a bool and push returns (), neither has an
\* error outcome. No reachable state with a call in progress is stuck.
CallsComplete ==
    /\ \A t \in Threads : (pc[t] \in {"push", "has_changed"}) ~> (pc[t] = "idle")
    /\ [](\A t \in Threads : pc[t] \in {"push", "has_changed", "hc_ret"}
              => \E u \in Threads : ENABLED Step(u))

\* A push into a shard that a running serialize had locked before the Entry
\* was there has returned while that serialize is still walking the index.
CallsCompleteWitness ==
    \E u \in Threads, e \in Pool :
        /\ pc[u] = "serialize"
        /\ e \notin snap[u]
        /\ it[u].shard > DetermineShard(e)
        /\ e \notin Range(wbuf[u])
        /\ <<Self(u), e>> \in BagToSet(returned)

\* C15: Entry::from_file either returns an Entry that has no chunks and the
\* attributes of the file's metadata, or returns an error; it returns an error
\* when the metadata cannot be read and when the modification time is before
\* the epoch; and it never touches an index.
FromFileReturns ==
    [][\A t \in Threads :
          (scan[t].stage = "none" /\ scan'[t].stage # "none")
              => LET f == scan'[t].file
                     e == scan'[t].entry
                 IN  /\ \/ /\ scan'[t].stage = "built"
                           /\ e = Entry(f.mtime_secs, f.mtime_nanos, f.mode, f.uid,
                                        f.gid, f.len, Readonly(f.mode), f.path, <<>>)
                        \/ /\ scan'[t].stage = "error"
                           /\ scan'[t].err \in {"io", "clock"}
                           /\ e = NoEntry
                     /\ ~f.meta_ok => scan'[t].stage = "error"
                     /\ f.mtime_secs < 0 => scan'[t].stage = "error"
                     /\ index' = index]_vars

\* C16: with no other thread pushing, serialize leaves the member set as it
\* was when it was called, and when its loop is over it has called write_next
\* as many times as the index has members, once for each member.
SerializeWritesEachOnce ==
    (pc[Main] = "serialize")
        => /\ Members(index[Self(Main)]) = snap[Main]
           /\ IterationDone(Main)
                 => /\ Len(wbuf[Main]) = Size(index[Self(Main)])
                    /\ Range(wbuf[Main]) = Members(index[Self(Main)])
                    /\ \A m \in Members(index[Self(Main)]) :
                          Cardinality({i \in 1..Len(wbuf[Main]) : wbuf[Main][i] = m}) = 1

\* The loop is over on an index of three members spread over two shards:
\* three records were written.
SerializeWritesEachOnceWitness ==
    /\ IterationDone(Main)
    /\ Size(index[Self(Main)]) = 3
    /\ Len(wbuf[Main]) = 3
    /\ \E s, r \in Shards : s # r /\ index[Self(Main)][s] # EmptyBag
                                  /\ index[Self(Main)][r] # EmptyBag

\* The Entries a reader yields before its first error.
Yielded(items) == {items[i].val : i \in 1..(FirstErr(items, 1) - 1)}

\* C17: deserialize is additive. Each turn of its loop adds the record it read
\* to the members and keeps every member that was there (a record equal to a
\* member changes nothing); when it is over, the index holds the Entries it
\* held at the call together with the Entries the reader yielded before its
\* first error, each once, however often the reader repeated them.
DeserializeAdditive ==
    /\ [][(pc[Main] = "deserialize" /\ ReadNext(rd[Main]).ok)
             => LET ix == Self(Main)
                    e == ReadNext(rd[Main]).val
                IN  /\ \A s \in Shards : index[ix][s] \sqsubseteq index'[ix][s]
                    /\ Members(index'[ix]) = Members(index[ix]) \cup {e}
                    /\ Size(index'[ix])
                          = Size(index[ix]) + IF e \in Members(index[ix]) THEN 0 ELSE 1]_vars
    /\ [](pc[Main] = "de_ret"
             => /\ Members(index[Self(Main)]) = snap[Main] \cup Yielded(rd[Main].items)
                /\ Size(index[Self(Main)])
                      = Cardinality(snap[Main] \cup Yielded(rd[Main].items)))

\* An index that held EntryB was restored from a reader that yields EntryA
\* twice and then EntryB: it holds EntryA and EntryB, once each.
DeserializeAdditiveWitness ==
    /\ pc[Main] = "de_ret"
    /\ snap[Main] = {EntryB}
    /\ rd[Main].items = <<Ok(EntryA), Ok(EntryA), Ok(EntryB)>>
    /\ Members(index[Self(Main)]) = {EntryA, EntryB}
    /\ Size(index[Self(Main)]) = 2

====
